---- MODULE Spec2Model ----
(***************************************************************************)
(* Model of src/bot.py: the template expander interpret_template_string    *)
(* and the four slash commands that consume it (create_channels,           *)
(* remove_channels, preview_template, clone_category).                     *)
(*                                                                         *)
(* A Python str is a sequence of one-character strings.  An outcome of a   *)
(* call is a record [kind, val]: kind = "ok" carries the returned list,    *)
(* kind = "error" is a raised exception, kind = "hang" is a loop that      *)
(* makes no progress.                                                      *)
(***************************************************************************)
EXTENDS Integers, Sequences, FiniteSets, TLC

\* ---------------------------------------------------------------- bounds
MaxChannels == 6      \* channels the guild accepts before create calls fail
MaxCommands == 2      \* commands run in one behaviour

\* ------------------------------------------------------ Python primitives
digits == <<"0", "1", "2", "3", "4", "5", "6", "7", "8", "9">>

ascii_uppercase ==
  <<"A", "B", "C", "D", "E", "F", "G", "H", "I", "J", "K", "L", "M",
    "N", "O", "P", "Q", "R", "S", "T", "U", "V", "W", "X", "Y", "Z">>

ascii_lowercase ==
  <<"a", "b", "c", "d", "e", "f", "g", "h", "i", "j", "k", "l", "m",
    "n", "o", "p", "q", "r", "s", "t", "u", "v", "w", "x", "y", "z">>

Elems(seq) == {seq[k] : k \in 1..Len(seq)}

DigitSet == Elems(digits)
UpperSet == Elems(ascii_uppercase)
LowerSet == Elems(ascii_lowercase)
SpaceSet == {" "}

\* the character class [0-9A-Za-z:] of the prefixed-range pattern
BoundSet == DigitSet \cup UpperSet \cup LowerSet \cup {":"}

Ok(v) == [kind |-> "ok", val |-> v]
Error == [kind |-> "error", val |-> <<>>]
Hang == [kind |-> "hang", val |-> <<>>]

\* Python None where a str is expected; the empty str is as falsy as None
None == <<>>

PosOf(seq, c) == CHOOSE k \in 1..Len(seq) : seq[k] = c

DigitVal(c) == PosOf(digits, c) - 1

\* str.isdigit(): non-empty and every character a digit
isdigit(s) == Len(s) > 0 /\ \A k \in 1..Len(s) : s[k] \in DigitSet

\* str.isalpha(): non-empty and every character a letter
isalpha(s) == Len(s) > 0 /\ \A k \in 1..Len(s) : s[k] \in UpperSet \cup LowerSet

\* str.isupper(): at least one cased character and no lowercase one
isupper(s) ==
  /\ \E k \in 1..Len(s) : s[k] \in UpperSet
  /\ \A k \in 1..Len(s) : s[k] \notin LowerSet

\* str.strip(): drop leading and trailing whitespace
RECURSIVE lstrip(_)
lstrip(s) == IF Len(s) > 0 /\ Head(s) \in SpaceSet THEN lstrip(Tail(s)) ELSE s

RECURSIVE rstrip(_)
rstrip(s) ==
  IF Len(s) > 0 /\ s[Len(s)] \in SpaceSet
  THEN rstrip(SubSeq(s, 1, Len(s) - 1)) ELSE s

strip(s) == rstrip(lstrip(s))

\* value of a digit string, most significant digit first
RECURSIVE DecVal(_)
DecVal(s) ==
  IF Len(s) = 0 THEN 0
  ELSE 10 * DecVal(SubSeq(s, 1, Len(s) - 1)) + DigitVal(s[Len(s)])

\* int(s): surrounding whitespace is ignored, anything but digits raises
\* ValueError
int(s) == IF isdigit(strip(s)) THEN Ok(DecVal(strip(s))) ELSE Error

\* str(n) for n >= 0
RECURSIVE str(_)
str(n) ==
  IF n < 10 THEN <<digits[n + 1]>>
  ELSE str(n \div 10) \o <<digits[(n % 10) + 1]>>

\* str.zfill(width)
RECURSIVE zfill(_, _)
zfill(s, width) == IF Len(s) >= width THEN s ELSE zfill(<<"0">> \o s, width)

\* list(range(start, stop, step)) for step >= 0; step = 0 raises ValueError
RECURSIVE RangeFrom(_, _, _)
RangeFrom(start, stop, step) ==
  IF start >= stop THEN <<>>
  ELSE <<start>> \o RangeFrom(start + step, stop, step)

\* a range that yields nothing for step 0 instead of raising
range_zero_empty(start, stop, step) ==
  IF step = 0 THEN Ok(<<>>) ELSE Ok(RangeFrom(start, stop, step))

range(start, stop, step) ==
  IF step = 0 THEN Error ELSE Ok(RangeFrom(start, stop, step))

\* does needle occur in hay at position p
StartsAt(hay, p, needle) ==
  /\ p >= 1
  /\ p + Len(needle) - 1 <= Len(hay)
  /\ \A k \in 1..Len(needle) : hay[p + k - 1] = needle[k]

\* str.find from position p, 1-based; 0 when absent
find(hay, needle, p) ==
  IF \E q \in p..(Len(hay) + 1) : StartsAt(hay, q, needle)
  THEN CHOOSE q \in p..(Len(hay) + 1) :
         /\ StartsAt(hay, q, needle)
         /\ \A r \in p..(q - 1) : ~StartsAt(hay, r, needle)
  ELSE 0

\* str.split(sep, maxsplit); maxsplit = -1 splits everywhere
RECURSIVE split(_, _, _)
split(s, sep, maxsplit) ==
  LET q == find(s, sep, 1) IN
  IF maxsplit = 0 \/ q = 0 THEN <<s>>
  ELSE <<SubSeq(s, 1, q - 1)>>
       \o split(SubSeq(s, q + Len(sep), Len(s)), sep,
                IF maxsplit > 0 THEN maxsplit - 1 ELSE maxsplit)

\* number of consecutive characters of class C starting at position p
RECURSIVE Span(_, _, _)
Span(s, p, C) ==
  IF p >= 1 /\ p <= Len(s) /\ s[p] \in C THEN 1 + Span(s, p + 1, C) ELSE 0

At(s, p) == IF p >= 1 /\ p <= Len(s) THEN s[p] ELSE ""

\* every character a template of the model is written with
Alphabet ==
  DigitSet \cup UpperSet \cup LowerSet
  \cup {" ", "[", "]", "{", "}", ",", ".", ":", "%", "=", ">", "/", "-", "(", ")"}

NoMatch ==
  [matched |-> FALSE, prefix |-> <<>>, raw_s |-> <<>>, raw_e |-> <<>>,
   raw_step |-> <<>>, end |-> 0]

dots == <<".", ".", ".">>

\* re.match(r"\[\s*(\d+)\.\.\.(\d+)(?::(\d+))?\s*\]", format_str)
\* The match is anchored at the start only; end is the position of the
\* closing bracket.  Every quantifier is followed by a character outside its
\* class, so only the optional step group has two ways to match: taken
\* (tried first, c1 is where the bracket must then be) or skipped (c0).
\* raw_step = <<>> stands for None.
m0_close(s, p1, p2, p4, n3, c1, c0) ==
  IF n3 > 0 /\ At(s, c1) = "]"
  THEN [matched |-> TRUE, prefix |-> <<>>,
        raw_s |-> SubSeq(s, p1, p2 - 1), raw_e |-> SubSeq(s, p2 + 3, p4 - 1),
        raw_step |-> SubSeq(s, p4 + 1, p4 + n3), end |-> c1]
  ELSE IF At(s, c0) = "]"
  THEN [matched |-> TRUE, prefix |-> <<>>,
        raw_s |-> SubSeq(s, p1, p2 - 1), raw_e |-> SubSeq(s, p2 + 3, p4 - 1),
        raw_step |-> <<>>, end |-> c0]
  ELSE NoMatch

m0_step(s, p1, p2, p4, n3) ==
  m0_close(s, p1, p2, p4, n3,
           p4 + 1 + n3 + Span(s, p4 + 1 + n3, SpaceSet),
           p4 + Span(s, p4, SpaceSet))

m0_end(s, p1, p2, p4) ==
  IF p4 > p2 + 3
  THEN m0_step(s, p1, p2, p4,
               IF At(s, p4) = ":" THEN Span(s, p4 + 1, DigitSet) ELSE 0)
  ELSE NoMatch

m0_dots(s, p1, p2) ==
  IF p2 > p1 /\ StartsAt(s, p2, dots)
  THEN m0_end(s, p1, p2, p2 + 3 + Span(s, p2 + 3, DigitSet))
  ELSE NoMatch

m0_start(s, p1) == m0_dots(s, p1, p1 + Span(s, p1, DigitSet))

m0(format_str) ==
  IF At(format_str, 1) = "["
  THEN m0_start(format_str, 2 + Span(format_str, 2, SpaceSet))
  ELSE NoMatch

MaxOf(S) == CHOOSE x \in S : \A o \in S : o <= x

\* the lengths the step group (?::(\d+))? can take at position q so that "]"
\* follows it; empty when only the skipped group can match
StepLens(s, q) ==
  IF At(s, q) = ":"
  THEN {j \in 1..Span(s, q + 1, DigitSet) : At(s, q + 1 + j) = "]"}
  ELSE {}

\* the lengths the end-bound group ([0-9A-Za-z:]+) can take at position p5 so
\* that the rest of the pattern matches
EndLens(s, p5) ==
  {k \in 1..Span(s, p5, BoundSet) : StepLens(s, p5 + k) # {} \/ At(s, p5 + k) = "]"}

m1_record(s, p2, p3, p4, k3, steps) ==
  [matched |-> TRUE,
   prefix |-> strip(SubSeq(s, 2, p2 - 1)),
   raw_s |-> SubSeq(s, p3, p4 - 1),
   raw_e |-> SubSeq(s, p4 + 3, p4 + 2 + k3),
   raw_step |-> IF steps = {} THEN <<>>
                ELSE SubSeq(s, p4 + 4 + k3, p4 + 3 + k3 + MaxOf(steps)),
   end |-> IF steps = {} THEN p4 + 3 + k3 ELSE p4 + 4 + k3 + MaxOf(steps)]

m1_groups(s, p2, p3, p4, k3) ==
  m1_record(s, p2, p3, p4, k3, StepLens(s, p4 + 3 + k3))

m1_close(s, p2, p3, p4, lens) ==
  IF lens = {} THEN NoMatch ELSE m1_groups(s, p2, p3, p4, MaxOf(lens))

m1_dots(s, p2, p3, p4) ==
  IF p4 > p3 /\ StartsAt(s, p4, dots)
  THEN m1_close(s, p2, p3, p4, EndLens(s, p4 + 3))
  ELSE NoMatch

m1_start(s, p2, p3) == m1_dots(s, p2, p3, p3 + Span(s, p3, BoundSet))

m1_prefix(s, p2) ==
  IF p2 > 2 /\ At(s, p2) = ","
  THEN m1_start(s, p2, p2 + 1 + Span(s, p2 + 1, SpaceSet))
  ELSE NoMatch

\* re.match(r"\[([^,\]]+),\s*([0-9A-Za-z:]+)\.\.\.([0-9A-Za-z:]+)(?::(\d+))?\]",
\*          format_str)
\* The end-bound group is greedy and its class contains ":" and the digits,
\* so the regex engine tries its lengths from the longest down; for each
\* length the step group is tried taken (longest digits first) and then
\* skipped.  The first combination followed by "]" is the match.
m1(format_str) ==
  IF At(format_str, 1) = "["
  THEN m1_prefix(format_str, 2 + Span(format_str, 2, Alphabet \ {",", "]"}))
  ELSE NoMatch

\* step = int(raw_step) if raw_step else 1
StepOf(raw_step) == IF raw_step = <<>> THEN 1 ELSE DecVal(raw_step)

Max(a, b) == IF a >= b THEN a ELSE b

\* [f"{prefix}{str(i).zfill(width)}" for i in values], values an outcome of
\* range
Padded(prefix, values, width) ==
  IF values.kind = "error" THEN Error
  ELSE Ok([k \in 1..Len(values.val) |-> prefix \o zfill(str(values.val[k]), width)])

\* start and end are outcomes of int; the values are
\* range(start, end + past, step), and past is the 1 of `end + 1`
numeric_values(prefix, start, end, past, step, width) ==
  IF start.kind = "error" \/ end.kind = "error" THEN Error
  ELSE Padded(prefix, range(start.val, end.val + past, step), width)

\* the bare numeric range with the end bound excluded
numeric_range_exclusive(raw_s, raw_e, raw_step) ==
  numeric_values(<<>>, int(raw_s), int(raw_e), 0, StepOf(raw_step),
                 Max(Len(raw_s), Len(raw_e)))

\* lines 39-43: the bare numeric range
numeric_range(raw_s, raw_e, raw_step) ==
  numeric_values(<<>>, int(raw_s), int(raw_e), 1, StepOf(raw_step),
                 Max(Len(raw_s), Len(raw_e)))

\* lines 53-56: the prefixed numeric range; raw_s is all digits here
prefixed_numeric(prefix, raw_s, raw_e, step) ==
  numeric_values(prefix, int(raw_s), int(raw_e), 1, step,
                 Max(Len(raw_s), Len(raw_e)))

\* datetime.strptime(raw, "%H:%M") as minutes since midnight.  The format
\* compiles to (2[0-3]|[0-1]\d|\d):([0-5]\d|\d); the two-digit alternatives
\* are tried first, and text left after the match raises ValueError.
Minute2(raw, p) ==
  At(raw, p) \in {"0", "1", "2", "3", "4", "5"} /\ At(raw, p + 1) \in DigitSet

ColonMinute(raw, p) ==
  At(raw, p) = ":" /\ (Minute2(raw, p + 1) \/ At(raw, p + 1) \in DigitSet)

Hour2(raw) ==
  \/ At(raw, 1) = "2" /\ At(raw, 2) \in {"0", "1", "2", "3"}
  \/ At(raw, 1) \in {"0", "1"} /\ At(raw, 2) \in DigitSet

HourLen(raw) ==
  IF Hour2(raw) /\ ColonMinute(raw, 3) THEN 2
  ELSE IF At(raw, 1) \in DigitSet /\ ColonMinute(raw, 2) THEN 1
  ELSE 0

strptime_minute(raw, hl, ml) ==
  IF Len(raw) # hl + 1 + ml THEN Error
  ELSE Ok(60 * DecVal(SubSeq(raw, 1, hl)) + DecVal(SubSeq(raw, hl + 2, hl + 1 + ml)))

strptime_hour(raw, hl) ==
  IF hl = 0 THEN Error
  ELSE strptime_minute(raw, hl, IF Minute2(raw, hl + 2) THEN 2 ELSE 1)

strptime(raw) == strptime_hour(raw, HourLen(raw))

\* s.strftime('%H:%M') for a time of the first day
strftime(t) ==
  zfill(str(t \div 60), 2) \o <<":">> \o zfill(str(t % 60), 2)

\* lines 62-66: while s <= e: out.append(...); s += timedelta(hours=step)
\* e is a time of the first day, so s leaves the loop when it passes e
RECURSIVE time_loop(_, _, _, _)
time_loop(prefix, s, e, step) ==
  IF s <= e
  THEN <<prefix \o strftime(s)>> \o time_loop(prefix, s + 60 * step, e, step)
  ELSE <<>>

\* s and e are outcomes of strptime; with step = 0 the loop never advances s
time_between(prefix, s, e, step) ==
  IF s.kind = "error" \/ e.kind = "error" THEN Error
  ELSE IF step = 0 /\ s.val <= e.val THEN Hang
  ELSE Ok(time_loop(prefix, s.val, e.val, step))

\* lines 59-66: the time range
time_range(prefix, raw_s, raw_e, step) ==
  time_between(prefix, strptime(raw_s), strptime(raw_e), step)

\* p is the 1-based result of find, 0 when absent
index_of(p) == IF p = 0 THEN Error ELSE Ok(p - 1)

\* alpha.index(sub): 0-based position of the first occurrence of the
\* substring sub, ValueError when absent
index(alpha, sub) == index_of(find(alpha, sub, 1))

\* the characters of alpha at the 0-based positions r
chars_at(alpha, r) == Ok([k \in 1..Len(r) |-> <<alpha[r[k] + 1]>>])

\* alpha[lo:hi:step] with 0-based lo, exclusive hi, step >= 0;
\* step = 0 raises ValueError
slice(alpha, lo, hi, step) ==
  IF step = 0 THEN Error
  ELSE chars_at(alpha,
                RangeFrom(lo, IF hi <= Len(alpha) THEN hi ELSE Len(alpha), step))

\* [f"{prefix}{c}" for c in segment], segment an outcome of slice
prefix_all(prefix, segment) ==
  IF segment.kind = "error" THEN Error
  ELSE Ok([k \in 1..Len(segment.val) |-> prefix \o segment.val[k]])

\* lo and hi are outcomes of index
letter_slice(prefix, alpha, lo, hi, step) ==
  IF lo.kind = "error" \/ hi.kind = "error" THEN Error
  ELSE prefix_all(prefix, slice(alpha, lo.val, hi.val + 1, step))

letters_of(prefix, alpha, raw_s, raw_e, step) ==
  letter_slice(prefix, alpha, index(alpha, raw_s), index(alpha, raw_e), step)

\* lines 69-72: the letter range; raw_s is one letter here
letter_range(prefix, raw_s, raw_e, step) ==
  letters_of(prefix,
             IF isupper(raw_s) THEN ascii_uppercase ELSE ascii_lowercase,
             raw_s, raw_e, step)

\* re.findall(r"\{(.*?)\}", s): contents of the brace groups, left to right;
\* a group runs from a "{" to the first "}" after it
RECURSIVE findall(_, _)
RECURSIVE findall_open(_, _)
RECURSIVE findall_close(_, _, _)
findall_close(s, p, q) ==
  IF q = 0 THEN <<>> ELSE <<SubSeq(s, p + 1, q - 1)>> \o findall(s, q + 1)

findall_open(s, p) ==
  IF p = 0 THEN <<>> ELSE findall_close(s, p, find(s, <<"}">>, p + 1))

findall(s, from) == findall_open(s, find(s, <<"{">>, from))

decimals(r) == Ok([k \in 1..Len(r) |-> str(r[k])])

\* line 81: [str(i) for i in range(int(a), int(b) + 1)]
numeric_axis(lo, hi) ==
  IF hi.kind = "error" THEN Error
  ELSE decimals(RangeFrom(lo.val, hi.val + 1, 1))

\* lines 80-84: a is the text before "...", b the text after it
axis_bounds(a, b) ==
  IF isdigit(a) THEN numeric_axis(int(a), int(b))
  ELSE letters_of(<<>>, IF isupper(a) THEN ascii_uppercase ELSE ascii_lowercase,
                  a, b, 1)

\* line 79: a, b = expr.split("...") raises ValueError unless there are
\* exactly two parts
axis_parts(parts) ==
  IF Len(parts) # 2 THEN Error ELSE axis_bounds(parts[1], parts[2])

\* lines 79-84: the list of one brace group
axis(expr) == axis_parts(split(expr, dots, -1))

\* every element of first before every tuple of rest, first varying fastest
cross_first_fastest(first, rest) ==
  [k \in 1..(Len(first) * Len(rest)) |->
     <<first[((k - 1) % Len(first)) + 1]>> \o rest[((k - 1) \div Len(first)) + 1]]

\* every element of first before every tuple of rest, rest varying fastest
cross(first, rest) ==
  [k \in 1..(Len(first) * Len(rest)) |->
     <<first[((k - 1) \div Len(rest)) + 1]>> \o rest[((k - 1) % Len(rest)) + 1]]

\* the product with the first list varying fastest
RECURSIVE product_first_fastest(_)
product_first_fastest(lists) ==
  IF lists = <<>> THEN << <<>> >>
  ELSE cross_first_fastest(Head(lists), product_first_fastest(Tail(lists)))

\* itertools.product(*lists): every tuple, the last list varying fastest
RECURSIVE product(_)
product(lists) ==
  IF lists = <<>> THEN << <<>> >> ELSE cross(Head(lists), product(Tail(lists)))

sub_close(v, tmp, p, q) ==
  IF q = 0 THEN tmp
  ELSE SubSeq(tmp, 1, p - 1) \o v \o SubSeq(tmp, q + 1, Len(tmp))

sub_open(v, tmp, p) ==
  IF p = 0 THEN tmp ELSE sub_close(v, tmp, p, find(tmp, <<"}">>, p + 1))

\* re.sub(r"\{.*?\}", v, tmp, count=1): replace the first brace group
sub(v, tmp) == sub_open(v, tmp, find(tmp, <<"{">>, 1))

\* lines 87-89: substitute the values of one combination, left to right
RECURSIVE fill(_, _)
fill(tmp, combo) ==
  IF combo = <<>> THEN tmp ELSE fill(sub(Head(combo), tmp), Tail(combo))

\* lines 85-91
grid_fill(format_str, combos) ==
  Ok([k \in 1..Len(combos) |-> fill(format_str, combos[k])])

\* lists holds the outcome of axis for every brace group
grid_lists(format_str, lists) ==
  IF \E k \in 1..Len(lists) : lists[k].kind = "error" THEN Error
  ELSE grid_fill(format_str, product([k \in 1..Len(lists) |-> lists[k].val]))

\* lines 77-91: the grid expander
grid(format_str, braces) ==
  grid_lists(format_str, [k \in 1..Len(braces) |-> axis(braces[k])])

\* lines 94-96: parts of a bracketed list, each stripped
stripped(raw) == [k \in 1..Len(raw) |-> strip(raw[k])]

list_parts(format_str) ==
  stripped(split(SubSeq(format_str, 2, Len(format_str) - 1), <<",">>, -1))

\* format_str.startswith("[") and format_str.endswith("]")
bracketed(format_str) ==
  Len(format_str) >= 1 /\ format_str[1] = "[" /\ format_str[Len(format_str)] = "]"

\* which branch of interpret_template_string handles format_str, a and m
\* being the matches of the two range patterns
branch(format_str, a, m) ==
  IF a.matched THEN "numeric"
  ELSE IF m.matched /\ isdigit(m.raw_s) THEN "prefixed_numeric"
  ELSE IF m.matched /\ ":" \in Elems(m.raw_s) THEN "time"
  ELSE IF m.matched /\ Len(m.raw_s) = 1 /\ isalpha(m.raw_s) THEN "letter"
  ELSE IF findall(format_str, 1) # <<>> THEN "grid"
  ELSE IF bracketed(format_str) /\ Len(list_parts(format_str)) > 1 THEN "list"
  ELSE "fallback"

dispatch(format_str) == branch(format_str, m0(format_str), m1(format_str))

expand(format_str, a, m, d) ==
  CASE d = "numeric" -> numeric_range(a.raw_s, a.raw_e, a.raw_step)
    [] d = "prefixed_numeric" ->
         prefixed_numeric(m.prefix, m.raw_s, m.raw_e, StepOf(m.raw_step))
    [] d = "time" -> time_range(m.prefix, m.raw_s, m.raw_e, StepOf(m.raw_step))
    [] d = "letter" -> letter_range(m.prefix, m.raw_s, m.raw_e, StepOf(m.raw_step))
    [] d = "grid" -> grid(format_str, findall(format_str, 1))
    [] d = "list" -> Ok(list_parts(format_str))
    [] OTHER -> Ok(<<format_str>>)

expand_match(format_str, a, m) == expand(format_str, a, m, branch(format_str, a, m))

\* lines 34-101
interpret_template_string(format_str) ==
  expand_match(format_str, m0(format_str), m1(format_str))

\* ------------------------------------------------------------ the guild
\* discord.utils.get(guild.categories, name=name): id of the first category
\* of that name, 0 for None
category_named(g, name) ==
  IF \E k \in 1..Len(g.cats) : g.cats[k].name = name
  THEN g.cats[CHOOSE k \in 1..Len(g.cats) :
                /\ g.cats[k].name = name
                /\ \A o \in 1..(k - 1) : g.cats[o].name # name].id
  ELSE 0

\* discord.utils.get(guild.categories, id=n)
category_with_id(g, n) ==
  IF \E k \in 1..Len(g.cats) : g.cats[k].id = n THEN n ELSE 0

\* category.channels
channels_of(g, cat) == SelectSeq(g.chans, LAMBDA c : c.cat = cat)

\* discord.utils.get(pool, name=name): position in pool of the first channel
\* of that name, 0 for None
channel_named(pool, name) ==
  IF \E k \in 1..Len(pool) : pool[k].name = name
  THEN CHOOSE k \in 1..Len(pool) :
         /\ pool[k].name = name
         /\ \A o \in 1..(k - 1) : pool[o].name # name
  ELSE 0

UsedIds(g) ==
  {g.cats[k].id : k \in 1..Len(g.cats)} \cup {g.chans[k].id : k \in 1..Len(g.chans)}

\* the id the remote gives to a new category or channel
NewId(g) == CHOOSE n \in 1..(MaxChannels + 1) :
              /\ n \notin UsedIds(g)
              /\ \A o \in 1..(n - 1) : o \in UsedIds(g)

\* the remote refuses a create call once the guild holds MaxChannels
\* categories and channels
Room(g) == Len(g.cats) + Len(g.chans) < MaxChannels

Exists(g, id) == \E k \in 1..Len(g.chans) : g.chans[k].id = id

with_category(g, name) ==
  [g EXCEPT !.cats = Append(@, [id |-> NewId(g), name |-> name])]

with_channel(g, name, cat) ==
  [g EXCEPT !.chans = Append(@, [id |-> NewId(g), name |-> name, cat |-> cat])]

without_channel(g, id) ==
  [g EXCEPT !.chans = SelectSeq(@, LAMBDA c : c.id # id)]

\* ------------------------------------------------------------ the filter
ExprEven == <<"i", "%", "2", "=", "=", "0">>
ExprAboveOne == <<"i", ">", "1">>
ExprDivide == <<"1", "/", "(", "i", "-", "2", ")", ">", "0">>
ExprNotDeleted == <<"n", "o", "t", " ", "d", "e", "l", "e", "t", "e", "d">>

\* bool(eval(expr)) with the locals of the calling handler in scope: i is
\* the 1-based index; scope.deleted is the handler's list `deleted` where the
\* handler has one (remove_channels), scope.has_deleted tells whether it has.
\* Any other text of the model's inputs is not a Python expression over
\* these names and raises.
eval(expr, i, scope) ==
  CASE expr = ExprEven -> Ok(i % 2 = 0)
    [] expr = ExprAboveOne -> Ok(i > 1)
    [] expr = ExprDivide -> IF i = 2 THEN Error ELSE Ok(i > 2)
    [] expr = ExprNotDeleted ->
         IF scope.has_deleted THEN Ok(scope.deleted = <<>>) ELSE Error
    [] OTHER -> Error

IfSep == <<",", " ", "i", "f", " ">>

\* lines 232-241 of remove_channels: the template handed to the expander and
\* the condition, None when there is none
remove_parse(tmpl) ==
  LET tpl == strip(tmpl)
      m == Len(tpl) >= 2 /\ tpl[1] = "[" /\ tpl[Len(tpl)] = "]"
      inner == SubSeq(tpl, 2, Len(tpl) - 1)
      parts == split(inner, IfSep, 1)
  IN IF m
     THEN [tpl |-> <<"[">> \o strip(parts[1]) \o <<"]">>,
           condition |-> IF Len(parts) > 1 THEN strip(parts[2]) ELSE None]
     ELSE [tpl |-> tpl, condition |-> None]

\* re.search(r"if (.+)", s): position of the first "if " that a character
\* follows, 0 for no match
search_if(s) ==
  LET Hit(p) == StartsAt(s, p, <<"i", "f", " ">>) /\ p + 3 <= Len(s)
  IN IF \E p \in 1..Len(s) : Hit(p)
     THEN CHOOSE p \in 1..Len(s) : Hit(p) /\ \A o \in 1..(p - 1) : ~Hit(o)
     ELSE 0

\* re.sub(r",?\s*if .+", "", s): the leftmost match runs to the end of s
sub_if(s) ==
  LET Hit(q) ==
        LET c == IF At(s, q) = "," THEN 1 ELSE 0
            sp == Span(s, q + c, SpaceSet)
        IN StartsAt(s, q + c + sp, <<"i", "f", " ">>) /\ q + c + sp + 3 <= Len(s)
  IN IF \E q \in 1..Len(s) : Hit(q)
     THEN SubSeq(s, 1, (CHOOSE q \in 1..Len(s) :
                          Hit(q) /\ \A o \in 1..(q - 1) : ~Hit(o)) - 1)
     ELSE s

\* lines 276-279 of preview_template; expr = None when the search fails
preview_parse(tmpl) ==
  LET p == search_if(tmpl)
  IN [expr |-> IF p = 0 THEN None ELSE strip(SubSeq(tmpl, p + 3, Len(tmpl))),
      base |-> strip(sub_if(tmpl))]

\* re.search(r"\[[^\]]+\]", target): start and end of the first bracket
\* group with something inside, start = 0 for no match
search_brackets(target) ==
  LET Inner(p) == Span(target, p + 1, Alphabet \ {"]"})
      Hit(p) == /\ At(target, p) = "["
                /\ Inner(p) >= 1
                /\ At(target, p + 1 + Inner(p)) = "]"
  IN IF \E p \in 1..Len(target) : Hit(p)
     THEN LET p == CHOOSE q \in 1..Len(target) :
                     Hit(q) /\ \A o \in 1..(q - 1) : ~Hit(o)
          IN [start |-> p, end |-> p + 1 + Inner(p)]
     ELSE [start |-> 0, end |-> 0]

\* lines 333-341 of clone_category: the names of the categories to create
clone_targets(target) ==
  LET m == search_brackets(target)
      bases == interpret_template_string(SubSeq(target, m.start, m.end))
  IN IF m.start = 0 THEN Ok(<<target>>)
     ELSE IF bases.kind # "ok" THEN bases
     ELSE Ok([k \in 1..Len(bases.val) |->
                SubSeq(target, 1, m.start - 1) \o bases.val[k]
                \o SubSeq(target, m.end + 1, Len(target))])

\* ------------------------------------------------------------ the inputs
MaxAxes == 3          \* brace groups in a generated grid template

NumTokens == {<<"1">>, <<"3">>, <<"0", "1">>, <<"0", "0", "7">>, <<"1", "0">>}

StepTokens == {<<>>, <<"0">>, <<"1">>, <<"2">>, <<"0", "3">>}

BoundTokens ==
  {<<"1">>, <<"0", "3">>, <<"1", "0">>,
   <<"A">>, <<"C">>, <<"c">>, <<"A", "B">>, <<"C", "D">>, <<"1", "a">>,
   <<"0", "8", ":", "0", "0">>, <<"1", "0", ":", "0", "0">>,
   <<"8", ":", "5">>, <<"2", "4", ":", "0", "0">>}

Trails ==
  {<<>>, <<"x">>, <<"{", "A", ".", ".", ".", "B", "}">>,
   <<",", " ", "i", "f", " ", "i", ">", "1">>}

Prefixes == {<<"R">>, <<" ", "R", "o", "o", "m", " ">>}

AxisSpecs ==
  {<< <<"1">>, <<"2">> >>, << <<"2">>, <<"1">> >>, << <<"9">>, <<"1", "1">> >>,
   << <<"0", "1">>, <<"0", "3">> >>,
   << <<"A">>, <<"C">> >>, << <<"B">>, <<"A">> >>, << <<"a">>, <<"b">> >>}

RawTemplates ==
  {<<>>, <<"[">>, <<"[", "a", "]">>, <<"j", "u", "s", "t">>,
   <<"[", "R", ",", " ", "H", ",", "G", "]">>,
   <<"[", "1", ".", ".", "3", "]">>,
   <<"{", "}">>, <<"{", "1", ".", ".", ".", "2">>,
   <<"{", "A", ".", ".", ".", "c", "}">>,
   <<"x", "{", "A", ".", ".", ".", "B", "C", "}">>,
   <<"[", "1", ".", ".", ".", "3", " ", ":", "2", "]">>}

NoInput ==
  [fam |-> "none", ws |-> <<>>, prefix |-> <<>>, s |-> <<>>, e |-> <<>>,
   k |-> <<>>, trail |-> <<>>, axes |-> <<>>, lits |-> <<>>, raw |-> <<>>]

BareInputs ==
  {[NoInput EXCEPT !.fam = "bare", !.ws = w, !.s = s, !.e = e, !.k = k,
                   !.trail = tr] :
     w \in {<<>>, <<" ">>}, s \in NumTokens, e \in NumTokens,
     k \in StepTokens, tr \in Trails}

PrefixedInputs ==
  {[NoInput EXCEPT !.fam = "prefixed", !.ws = w, !.prefix = p, !.s = s,
                   !.e = e, !.k = k, !.trail = tr] :
     w \in {<<>>, <<" ">>}, p \in Prefixes, s \in BoundTokens,
     e \in BoundTokens, k \in {<<>>, <<"0">>, <<"2">>},
     tr \in {<<>>, <<"x">>}}

AxesOfLen(n) == [1..n -> AxisSpecs]

\* the literal text around n brace groups: none, a dash everywhere, or a
\* leading name
LitPatterns(n) ==
  {[i \in 1..(n + 1) |-> <<>>],
   [i \in 1..(n + 1) |-> <<"-">>],
   [i \in 1..(n + 1) |-> IF i = 1 THEN <<"S">> ELSE <<>>]}

GridInputs ==
  UNION {{[NoInput EXCEPT !.fam = "grid", !.axes = ax, !.lits = ls] :
            ax \in AxesOfLen(n), ls \in LitPatterns(n)} :
         n \in 1..MaxAxes}

RawInputs == {[NoInput EXCEPT !.fam = "raw", !.raw = r] : r \in RawTemplates}

StepPart(k) == IF k = <<>> THEN <<>> ELSE <<":">> \o k

RECURSIVE RenderGrid(_, _)
RenderGrid(axes, lits) ==
  IF axes = <<>> THEN Head(lits)
  ELSE Head(lits) \o <<"{">> \o Head(axes)[1] \o dots \o Head(axes)[2] \o <<"}">>
       \o RenderGrid(Tail(axes), Tail(lits))

\* the template text an input stands for
Render(in) ==
  CASE in.fam = "bare" ->
         <<"[">> \o in.ws \o in.s \o dots \o in.e \o StepPart(in.k) \o in.ws
         \o <<"]">> \o in.trail
    [] in.fam = "prefixed" ->
         <<"[">> \o in.prefix \o <<",">> \o in.ws \o in.s \o dots \o in.e
         \o StepPart(in.k) \o <<"]">> \o in.trail
    [] in.fam = "grid" -> RenderGrid(in.axes, in.lits)
    [] OTHER -> in.raw

\* --------------------------------------------------------------- the state
VARIABLES
  input,      \* decomposition of the template handed to the expander
  template,   \* the template text of the call
  result,     \* outcome of interpret_template_string, NotCalled before it
  guild,      \* the remote guild: its categories and its channels, in order
  pc,         \* position of the running command
  cmd,        \* locals of the running command
  sent,       \* the message the command sent with followup.send
  succ,       \* remote batch calls of the command that succeeded
  decisions,  \* every keep/drop decision a filter has taken so far
  ncmd        \* commands started

expander == <<input, template, result>>
bot == <<guild, pc, cmd, sent, succ, decisions, ncmd>>
vars == <<input, template, result, guild, pc, cmd, sent, succ, decisions, ncmd>>

NotCalled == [kind |-> "none", val |-> <<>>]


IdleCmd ==
  [op |-> "none", tmpl |-> None, names |-> <<>>, i |-> 0, acc |-> <<>>,
   selected |-> <<>>, condition |-> None, pool |-> <<>>, src |-> 0, cat |-> 0,
   j |-> 0, count |-> 0, results |-> <<>>, failure |-> "none"]

NoMessage == [kind |-> "none", count |-> 0, names |-> <<>>, results |-> <<>>]

EmptyGuild == [cats |-> <<>>, chans |-> <<>>]

InitBot(g) ==
  /\ guild = g
  /\ pc = "idle"
  /\ cmd = IdleCmd
  /\ sent = NoMessage
  /\ succ = 0
  /\ decisions = {}
  /\ ncmd = 0

InitExpand ==
  /\ input \in BareInputs \cup PrefixedInputs \cup GridInputs \cup RawInputs
  /\ template = Render(input)
  /\ result = NotCalled
  /\ InitBot(EmptyGuild)

\* a call interpret_template_string(template)
Expand ==
  /\ result = NotCalled
  /\ result' = interpret_template_string(template)
  /\ UNCHANGED <<input, template>>
  /\ UNCHANGED bot

NextExpand == Expand

SpecExpand == InitExpand /\ [][NextExpand]_vars

\* ---------------------------------------------------------- the commands
Resting == pc \in {"idle", "done", "raised"}

Message(kind, count, names, results) ==
  [kind |-> kind, count |-> count, names |-> names, results |-> results]

\* a handler starts: interaction.response.defer
Start ==
  /\ Resting
  /\ ncmd < MaxCommands
  /\ ncmd' = ncmd + 1
  /\ succ' = 0
  /\ UNCHANGED expander

Raised(op, why) ==
  /\ pc' = "raised"
  /\ cmd' = [IdleCmd EXCEPT !.op = op, !.failure = why]
  /\ sent' = NoMessage

\* the first n elements of seq whose 1-based index is in the set keep
RECURSIVE kept(_, _, _)
kept(seq, n, keep) ==
  IF n = 0 THEN <<>>
  ELSE kept(seq, n - 1, keep) \o (IF n \in keep THEN <<seq[n]>> ELSE <<>>)

\* lines 159-181 of create_channels; ok is the outcome of the
\* guild.create_category call when the category has to be created
create_channels(tmpl, category_name, ok) ==
  /\ Start
  /\ LET names == interpret_template_string(tmpl)
         found == category_named(guild, category_name)
         need == category_name # None /\ found = 0
     IN IF names.kind # "ok"
        THEN Raised("create_channels", "format") /\ UNCHANGED guild
        ELSE IF need /\ ~(ok /\ Room(guild))
        THEN Raised("create_channels", "setup") /\ UNCHANGED guild
        ELSE /\ guild' = IF need THEN with_category(guild, category_name) ELSE guild
             /\ cmd' = [IdleCmd EXCEPT !.op = "create_channels",
                                       !.names = names.val, !.i = 1,
                                       !.cat = IF need THEN NewId(guild) ELSE found]
             /\ pc' = "create"
             /\ sent' = NoMessage
  /\ UNCHANGED decisions

\* lines 182-199: one iteration of the creation loop; ok is the outcome of
\* the guild.create_*_channel call, whose failure is caught and printed
create_channels_item(ok) ==
  /\ pc = "create"
  /\ cmd.i <= Len(cmd.names)
  /\ IF ok /\ Room(guild)
     THEN /\ guild' = with_channel(guild, cmd.names[cmd.i], cmd.cat)
          /\ cmd' = [cmd EXCEPT !.i = @ + 1, !.acc = Append(@, cmd.names[cmd.i])]
          /\ succ' = succ + 1
     ELSE /\ cmd' = [cmd EXCEPT !.i = @ + 1]
          /\ UNCHANGED <<guild, succ>>
  /\ UNCHANGED <<expander, pc, sent, decisions, ncmd>>

\* lines 201-204
create_channels_report ==
  /\ pc = "create"
  /\ cmd.i > Len(cmd.names)
  /\ sent' = Message("created", Len(cmd.acc), cmd.acc, <<>>)
  /\ pc' = "done"
  /\ UNCHANGED <<expander, guild, cmd, succ, decisions, ncmd>>

\* lines 218-243 and 260, 266 of remove_channels
remove_channels(tmpl, category_name) ==
  /\ Start
  /\ LET cn == strip(category_name)
         category == IF category_name = None THEN 0
                     ELSE IF isdigit(cn) THEN category_with_id(guild, DecVal(cn))
                     ELSE category_named(guild, cn)
         parsed == remove_parse(tmpl)
         names == interpret_template_string(parsed.tpl)
         pool == IF category_name # None THEN channels_of(guild, category)
                 ELSE guild.chans
     IN IF category_name # None /\ category = 0
        THEN /\ sent' = Message("not_found", 0, <<>>, <<>>)
             /\ pc' = "done"
             /\ cmd' = [IdleCmd EXCEPT !.op = "remove_channels"]
        ELSE IF tmpl # None
        THEN IF names.kind # "ok"
             THEN Raised("remove_channels", "format")
             ELSE /\ cmd' = [IdleCmd EXCEPT !.op = "remove_channels",
                                            !.tmpl = tmpl,
                                            !.names = names.val, !.i = 1,
                                            !.condition = parsed.condition,
                                            !.pool = pool]
                  /\ pc' = "remove"
                  /\ sent' = NoMessage
        ELSE IF category_name # None
        THEN /\ cmd' = [IdleCmd EXCEPT !.op = "remove_category", !.i = 1,
                                       !.pool = pool, !.cat = category]
             /\ pc' = "remove_category"
             /\ sent' = NoMessage
        ELSE /\ sent' = Message("usage", 0, <<>>, <<>>)
             /\ pc' = "done"
             /\ cmd' = [IdleCmd EXCEPT !.op = "remove_channels"]
  /\ UNCHANGED <<guild, decisions>>

\* lines 244-257: one iteration of the loop over the names; ok is the
\* outcome of ch.delete() on a channel that still exists.  pool is the list
\* taken before the loop, so a channel deleted by an earlier iteration is
\* still found in it and deleting it again fails.
remove_channels_item(ok) ==
  /\ pc = "remove"
  /\ cmd.i <= Len(cmd.names)
  /\ LET i == cmd.i
         name == cmd.names[i]
         v == eval(cmd.condition, i, [has_deleted |-> TRUE, deleted |-> cmd.acc])
         keep == cmd.condition = None \/ (v.kind = "ok" /\ v.val)
         k == channel_named(cmd.pool, name)
         deletes == keep /\ k # 0 /\ ok /\ Exists(guild, cmd.pool[k].id)
     IN /\ decisions' = IF cmd.condition = None THEN decisions
                        ELSE decisions \cup
                               {[expr |-> cmd.condition, i |-> i, keep |-> keep]}
        /\ cmd' = [cmd EXCEPT !.i = @ + 1,
                              !.selected = IF keep THEN Append(@, name) ELSE @,
                              !.acc = IF deletes THEN Append(@, name) ELSE @]
        /\ guild' = IF deletes THEN without_channel(guild, cmd.pool[k].id) ELSE guild
        /\ succ' = IF deletes THEN succ + 1 ELSE succ
  /\ UNCHANGED <<expander, pc, sent, ncmd>>

\* line 258
remove_channels_report ==
  /\ pc = "remove"
  /\ cmd.i > Len(cmd.names)
  /\ sent' = Message("deleted", Len(cmd.acc), <<>>, <<>>)
  /\ pc' = "done"
  /\ UNCHANGED <<expander, guild, cmd, succ, decisions, ncmd>>

\* lines 261-263: one iteration of the loop over the category's channels;
\* nothing catches a failure of ch.delete()
remove_category_item(ok) ==
  /\ pc = "remove_category"
  /\ cmd.i <= Len(cmd.pool)
  /\ IF ok /\ Exists(guild, cmd.pool[cmd.i].id)
     THEN /\ guild' = without_channel(guild, cmd.pool[cmd.i].id)
          /\ cmd' = [cmd EXCEPT !.i = @ + 1, !.acc = Append(@, cmd.pool[cmd.i].name)]
          /\ succ' = succ + 1
          /\ UNCHANGED pc
     ELSE /\ pc' = "raised"
          /\ cmd' = [cmd EXCEPT !.failure = "remote"]
          /\ UNCHANGED <<guild, succ>>
  /\ UNCHANGED <<expander, sent, decisions, ncmd>>

\* line 264
remove_category_report ==
  /\ pc = "remove_category"
  /\ cmd.i > Len(cmd.pool)
  /\ sent' = Message("deleted_from", Len(cmd.acc), <<>>, <<>>)
  /\ pc' = "done"
  /\ UNCHANGED <<expander, guild, cmd, succ, decisions, ncmd>>

\* lines 273-294 of preview_template: the whole handler awaits nothing but
\* its messages.  An exception of eval at some index leaves the loop and is
\* reported by the handler's except clause.
preview_template(tmpl) ==
  /\ Start
  /\ LET hasIf == find(tmpl, <<"i", "f">>, 1) # 0
         parsed == preview_parse(tmpl)
         names == interpret_template_string(IF hasIf THEN parsed.base ELSE tmpl)
         n == Len(names.val)
         Val(i) == eval(parsed.expr, i, [has_deleted |-> FALSE, deleted |-> <<>>])
         Fails(i) == hasIf /\ parsed.expr # None /\ Val(i).kind = "error"
         Keep(i) == ~hasIf \/ (parsed.expr # None /\ Val(i).kind = "ok" /\ Val(i).val)
         Reached(i) == \A o \in 1..i : ~Fails(o)
         preview == kept(names.val, n, {i \in 1..n : Keep(i)})
         why == IF names.kind # "ok" THEN "format"
                ELSE IF \E i \in 1..n : Fails(i) THEN "filter" ELSE "none"
     IN /\ cmd' = [IdleCmd EXCEPT !.op = "preview_template", !.tmpl = tmpl,
                                  !.names = names.val,
                                  !.condition = IF hasIf THEN parsed.expr ELSE None,
                                  !.selected = IF why = "none" THEN preview ELSE <<>>,
                                  !.failure = why]
        /\ sent' = IF why # "none" THEN Message("error", 0, <<>>, <<>>)
                   ELSE IF preview = <<>> THEN Message("no_results", 0, <<>>, <<>>)
                   ELSE Message("preview", Len(preview), preview, <<>>)
        /\ decisions' = IF names.kind = "ok" /\ hasIf /\ parsed.expr # None
                        THEN decisions \cup
                               {[expr |-> parsed.expr, i |-> i, keep |-> Keep(i)] :
                                  i \in {o \in 1..n : Reached(o)}}
                        ELSE decisions
  /\ pc' = "done"
  /\ UNCHANGED guild

\* lines 320-343 of clone_category
clone_category(source, target) ==
  /\ Start
  /\ LET byId == IF isdigit(source) THEN category_with_id(guild, DecVal(source)) ELSE 0
         src == IF byId # 0 THEN byId ELSE category_named(guild, source)
         targets == clone_targets(target)
     IN IF src = 0
        THEN /\ sent' = Message("not_found", 0, <<>>, <<>>)
             /\ pc' = "done"
             /\ cmd' = [IdleCmd EXCEPT !.op = "clone_category"]
        ELSE IF targets.kind # "ok"
        THEN Raised("clone_category", "format")
        ELSE /\ cmd' = [IdleCmd EXCEPT !.op = "clone_category", !.src = src,
                                       !.names = targets.val, !.i = 1]
             /\ pc' = "clone"
             /\ sent' = NoMessage
  /\ UNCHANGED <<guild, decisions>>

\* line 345: guild.create_category for the next target; nothing catches its
\* failure.  On success the loop over src.channels starts with the channels
\* the source has now; with none of them the target is finished at once.
clone_category_create(ok) ==
  /\ pc = "clone"
  /\ cmd.i <= Len(cmd.names)
  /\ IF ok /\ Room(guild)
     THEN /\ guild' = with_category(guild, cmd.names[cmd.i])
          /\ IF channels_of(guild, cmd.src) = <<>>
             THEN /\ cmd' = [cmd EXCEPT !.i = @ + 1,
                                        !.results = Append(@, <<cmd.names[cmd.i], 0>>)]
                  /\ UNCHANGED pc
             ELSE /\ cmd' = [cmd EXCEPT !.cat = NewId(guild), !.count = 0,
                                        !.j = 1, !.pool = channels_of(guild, cmd.src)]
                  /\ pc' = "clone_channels"
     ELSE /\ pc' = "raised"
          /\ cmd' = [cmd EXCEPT !.failure = "remote"]
          /\ UNCHANGED guild
  /\ UNCHANGED <<expander, sent, succ, decisions, ncmd>>

\* lines 347-361: one iteration of the loop over the source's channels; ok
\* is the outcome of the guild.create_*_channel call, whose failure is caught
\* before count += 1.  After the last channel the target is finished.
clone_channels_item(ok) ==
  /\ pc = "clone_channels"
  /\ cmd.j <= Len(cmd.pool)
  /\ LET made == ok /\ Room(guild)
         count == IF made THEN cmd.count + 1 ELSE cmd.count
         last == cmd.j = Len(cmd.pool)
     IN /\ guild' = IF made THEN with_channel(guild, cmd.pool[cmd.j].name, cmd.cat)
                    ELSE guild
        /\ succ' = IF made THEN succ + 1 ELSE succ
        /\ cmd' = IF last
                  THEN [cmd EXCEPT !.j = @ + 1, !.count = count, !.i = @ + 1,
                                   !.results = Append(@, <<cmd.names[cmd.i], count>>)]
                  ELSE [cmd EXCEPT !.j = @ + 1, !.count = count]
        /\ pc' = IF last THEN "clone" ELSE pc
  /\ UNCHANGED <<expander, sent, decisions, ncmd>>

RECURSIVE SumCounts(_)
SumCounts(results) ==
  IF results = <<>> THEN 0 ELSE Head(results)[2] + SumCounts(Tail(results))

\* lines 363-364
clone_category_report ==
  /\ pc = "clone"
  /\ cmd.i > Len(cmd.names)
  /\ sent' = Message("cloned", SumCounts(cmd.results), <<>>, cmd.results)
  /\ pc' = "done"
  /\ UNCHANGED <<expander, guild, cmd, succ, decisions, ncmd>>

\* --------------------------------------------------- inputs of the commands
CreateTemplates == {<<"[", "1", ".", ".", ".", "2", "]">>, <<"[", "A", ",", " ", "B", "]">>, <<"[", "1", ".", ".", ".", "2", ":", "0", "]">>}

RemoveTemplates ==
  {None, <<"[", "1", ".", ".", ".", "3", ",", " ", "i", "f", " ", "i", "%", "2", "=", "=", "0", "]">>, <<"[", "1", ".", ".", ".", "3", "]", ",", " ", "i", "f", " ", "i", "%", "2", "=", "=", "0">>,
   <<"[", "A", ",", " ", "B", ",", " ", "i", "f", " ", "n", "o", "t", " ", "d", "e", "l", "e", "t", "e", "d", "]">>, <<"[", "1", ".", ".", ".", "3", ",", " ", "i", "f", " ", "1", "/", "(", "i", "-", "2", ")", ">", "0", "]">>, <<"[", "A", ",", " ", "A", "]">>,
   <<"[", "R", ",", "1", ".", ".", ".", "2", ":", "0", "]">>}

PreviewTemplates ==
  {<<"[", "1", ".", ".", ".", "3", "]">>, <<"[", "1", ".", ".", ".", "3", "]", ",", " ", "i", "f", " ", "i", "%", "2", "=", "=", "0">>, <<"[", "1", ".", ".", ".", "3", ",", " ", "i", "f", " ", "i", "%", "2", "=", "=", "0", "]">>,
   <<"[", "1", ".", ".", ".", "3", "]", ",", " ", "i", "f", " ", "1", "/", "(", "i", "-", "2", ")", ">", "0">>, <<"[", "1", ".", ".", ".", "3", "]", ",", " ", "i", "f", " ", "n", "o", "t", " ", "d", "e", "l", "e", "t", "e", "d">>, <<"[", "G", "i", "f", "t", ",", "1", ".", ".", ".", "2", "]">>,
   <<"[", "1", ".", ".", ".", "2", ":", "0", "]", ",", " ", "i", "f", " ", "i", ">", "1">>}

CategoryNames == {None, <<"K">>, <<"Z">>}

CloneTargets == {<<"N">>, <<"N", "[", "1", ".", ".", ".", "2", "]">>, <<"N", "[", "1", ".", ".", ".", "2", ":", "0", "]">>}

GuildK ==
  [cats |-> <<[id |-> 1, name |-> <<"K">>]>>,
   chans |-> <<[id |-> 2, name |-> <<"1">>, cat |-> 1],
               [id |-> 3, name |-> <<"2">>, cat |-> 1]>>]

GuildAB ==
  [cats |-> <<>>,
   chans |-> <<[id |-> 1, name |-> <<"A">>, cat |-> 0],
               [id |-> 2, name |-> <<"B">>, cat |-> 0]>>]

InitGuilds == {EmptyGuild, GuildK, GuildAB}

Init ==
  /\ input = NoInput
  /\ template = <<>>
  /\ result = NotCalled
  /\ \E g \in InitGuilds : InitBot(g)

Next ==
  \/ \E tmpl \in CreateTemplates, c \in CategoryNames, ok \in BOOLEAN :
       create_channels(tmpl, c, ok)
  \/ \E ok \in BOOLEAN : create_channels_item(ok)
  \/ create_channels_report
  \/ \E tmpl \in RemoveTemplates, c \in CategoryNames \cup {<<"1">>} :
       remove_channels(tmpl, c)
  \/ \E ok \in BOOLEAN : remove_channels_item(ok)
  \/ remove_channels_report
  \/ \E ok \in BOOLEAN : remove_category_item(ok)
  \/ remove_category_report
  \/ \E tmpl \in PreviewTemplates : preview_template(tmpl)
  \/ \E source \in {<<"K">>, <<"Z">>, <<"1">>}, target \in CloneTargets :
       clone_category(source, target)
  \/ \E ok \in BOOLEAN : clone_category_create(ok)
  \/ \E ok \in BOOLEAN : clone_channels_item(ok)
  \/ clone_category_report

Spec == Init /\ [][Next]_vars

\* ------------------------------------------------- claims on the expander
Called == result # NotCalled

\* x is the decimal numeral of v padded with zeros to exactly width w
IsPadded(x, v, w) == isdigit(x) /\ DecVal(x) = v /\ Len(x) = w

\* x is the decimal numeral of v without padding
IsDecimal(x, v) ==
  isdigit(x) /\ DecVal(x) = v /\ (Len(x) = 1 \/ x[1] # "0")

StepValue(k) == IF k = <<>> THEN 1 ELSE DecVal(k)

\* how many of s, s+k, s+2k, ... are <= e
CountUpTo(s, e, k) == Cardinality({v \in s..e : (v - s) % k = 0})

\* out is prefix+s, prefix+(s+k), ... up to e, each padded to the wider token
IsNumericExpansion(out, prefix, s, e, k) ==
  LET sv == DecVal(s)
      ev == DecVal(e)
      kv == StepValue(k)
      w == Max(Len(s), Len(e))
  IN /\ out.kind = "ok"
     /\ Len(out.val) = CountUpTo(sv, ev, kv)
     /\ \A j \in 1..Len(out.val) :
          /\ Len(out.val[j]) = Len(prefix) + w
          /\ SubSeq(out.val[j], 1, Len(prefix)) = prefix
          /\ IsPadded(SubSeq(out.val[j], Len(prefix) + 1, Len(out.val[j])),
                      sv + (j - 1) * kv, w)

\* C1: a bare numeric template [s...e] or [s...e:k] with k >= 1 expands to
\* exactly s, s+k, s+2k, ... <= e in ascending order, each zero-padded to
\* width max(len(s), len(e)); s > e gives the empty list and no error.
C1_BareNumericRange ==
  (Called /\ input.fam = "bare" /\ input.trail = <<>> /\ StepValue(input.k) >= 1)
    => IsNumericExpansion(result, <<>>, input.s, input.e, input.k)

C1_Witness ==
  /\ Called
  /\ input.fam = "bare" /\ input.trail = <<>>
  /\ input.s = <<"0", "0", "7">> /\ input.e = <<"1", "0">> /\ input.k = <<"2">>
  /\ result = Ok(<< <<"0", "0", "7">>, <<"0", "0", "9">> >>)

C1_WitnessEmpty ==
  /\ Called
  /\ input.fam = "bare" /\ input.trail = <<>>
  /\ DecVal(input.s) > DecVal(input.e)
  /\ result = Ok(<<>>)

\* C2: a prefixed numeric template [prefix, s...e] or [prefix, s...e:k] with
\* k >= 1 expands to the sequence of the bare range [s...e:k] with the prefix
\* prepended to every element; an explicit :k is the step, not part of the end
\* bound.
C2_PrefixedNumericRange ==
  (/\ Called
   /\ input.fam = "prefixed" /\ input.trail = <<>>
   /\ isdigit(input.s) /\ isdigit(input.e)
   /\ StepValue(input.k) >= 1)
    => IsNumericExpansion(result, strip(input.prefix), input.s, input.e, input.k)

\* the part of C2 without an explicit step
C2_NoStepHolds ==
  (/\ Called
   /\ input.fam = "prefixed" /\ input.trail = <<>>
   /\ isdigit(input.s) /\ isdigit(input.e)
   /\ input.k = <<>>)
    => IsNumericExpansion(result, strip(input.prefix), input.s, input.e, input.k)

\* a grid axis {a...b} of the claimed shape: digits on both sides, or one
\* letter of the same case on both sides
NumericAxis(ax) == isdigit(ax[1]) /\ isdigit(ax[2])

LetterAxis(ax) ==
  /\ Len(ax[1]) = 1 /\ Len(ax[2]) = 1
  /\ \/ ax[1][1] \in UpperSet /\ ax[2][1] \in UpperSet
     \/ ax[1][1] \in LowerSet /\ ax[2][1] \in LowerSet

AlphabetOf(c) == IF c \in UpperSet THEN ascii_uppercase ELSE ascii_lowercase

\* number of elements of an axis: 0 when it is inverted
AxisLen(ax) ==
  LET lo == IF NumericAxis(ax) THEN DecVal(ax[1])
            ELSE PosOf(AlphabetOf(ax[1][1]), ax[1][1])
      hi == IF NumericAxis(ax) THEN DecVal(ax[2])
            ELSE PosOf(AlphabetOf(ax[1][1]), ax[2][1])
  IN IF hi >= lo THEN hi - lo + 1 ELSE 0

\* x is the n-th element (1-based) of the axis
IsAxisElem(x, ax, n) ==
  IF NumericAxis(ax) THEN IsDecimal(x, DecVal(ax[1]) + n - 1)
  ELSE x = <<AlphabetOf(ax[1][1])[PosOf(AlphabetOf(ax[1][1]), ax[1][1]) + n - 1]>>

RECURSIVE SizeFrom(_, _)
SizeFrom(axes, i) ==
  IF i > Len(axes) THEN 1 ELSE AxisLen(axes[i]) * SizeFrom(axes, i + 1)

\* 1-based position on axis i of the j-th tuple of the product in
\* lexicographic order, the last axis varying fastest
Coord(axes, i, j) ==
  (((j - 1) \div SizeFrom(axes, i + 1)) % AxisLen(axes[i])) + 1

\* x is lits[i] v_i lits[i+1] v_(i+1) ... for the coordinates of tuple j
RECURSIVE IsFilled(_, _, _, _, _)
IsFilled(x, axes, lits, i, j) ==
  IF i > Len(axes) THEN x = lits[i]
  ELSE \E n \in 1..(Len(x) - Len(lits[i])) :
         /\ SubSeq(x, 1, Len(lits[i])) = lits[i]
         /\ IsAxisElem(SubSeq(x, Len(lits[i]) + 1, Len(lits[i]) + n), axes[i],
                       Coord(axes, i, j))
         /\ IsFilled(SubSeq(x, Len(lits[i]) + n + 1, Len(x)), axes, lits, i + 1, j)

GridCase ==
  /\ Called
  /\ input.fam = "grid"
  /\ dispatch(template) = "grid"
  /\ \A i \in 1..Len(input.axes) :
       NumericAxis(input.axes[i]) \/ LetterAxis(input.axes[i])

\* C3: a template handled by the grid expander with brace groups
\* {a1...b1} ... {ak...bk} expands to the Cartesian product of the axes in
\* lexicographic order, last axis fastest; output j is the template with
\* group i replaced by element i of tuple j and the other text unchanged; the
\* length is n1 x ... x nk, 0 when an axis is inverted.
C3_GridProduct ==
  GridCase =>
    /\ result.kind = "ok"
    /\ Len(result.val) = SizeFrom(input.axes, 1)
    /\ \A j \in 1..Len(result.val) :
         IsFilled(result.val[j], input.axes, input.lits, 1, j)

C3_Witness ==
  /\ GridCase
  /\ Len(input.axes) = 2
  /\ AxisLen(input.axes[1]) = 3 /\ AxisLen(input.axes[2]) = 2
  /\ Len(result.val) = 6
  /\ result.val[2] # result.val[3]

C3_WitnessInverted ==
  /\ GridCase
  /\ Len(input.axes) = 2
  /\ AxisLen(input.axes[1]) = 3 /\ AxisLen(input.axes[2]) = 0
  /\ result = Ok(<<>>)

\* the shapes of a pair of bounds the prefixed matcher is specified for
BothNumbers(s, e) == isdigit(s) /\ isdigit(e)

BothTimes(s, e) == strptime(s).kind = "ok" /\ strptime(e).kind = "ok"

BothLetters(s, e) == LetterAxis(<<s, e>>)

WellFormed(s, e) == BothNumbers(s, e) \/ BothTimes(s, e) \/ BothLetters(s, e)

RangeCase == Called /\ input.fam \in {"bare", "prefixed"}

\* C6: a template that structurally matches the numeric or the prefixed
\* matcher is handled by that matcher alone: with an ill-formed pair of
\* bounds the call fails with an error; it never falls through to the grid,
\* list or passthrough branch and never returns a sequence.
C6_IllFormedBoundFails ==
  (RangeCase /\ (m0(template).matched \/ m1(template).matched))
    => /\ dispatch(template) \notin {"grid", "list", "fallback"}
       /\ ~WellFormed(input.s, input.e) => result.kind = "error"

ZeroStep == input.k # <<>> /\ DecVal(input.k) = 0

\* C7: interpret_template_string terminates on every template, and a
\* structurally matched range (bare numeric, prefixed numeric, time-of-day,
\* alphabetic: both bounds numbers, both times or both letters of one case)
\* written with step 0 ends in an error: no endless loop, no returned
\* sequence.
C7_ZeroStepFails ==
  Called =>
    /\ result.kind \in {"ok", "error"}
    /\ (RangeCase /\ ZeroStep /\ WellFormed(input.s, input.e))
         => result.kind = "error"

C7_Witness ==
  /\ RangeCase /\ ZeroStep
  /\ input.fam = "prefixed"
  /\ BothTimes(input.s, input.e)
  /\ strptime(input.s).val < strptime(input.e).val
  /\ result.kind = "error"

C7_WitnessBare ==
  /\ RangeCase /\ ZeroStep
  /\ input.fam = "bare"
  /\ DecVal(input.s) < DecVal(input.e)
  /\ result.kind = "error"

\* the expansion of the leading range of the template, without what follows
\* its closing bracket
LeadingAlone == interpret_template_string(Render([input EXCEPT !.trail = <<>>]))

\* C10: the numeric and prefixed matchers fire only on a range that spans the
\* whole template: with text after the closing bracket the call does not
\* return the expansion of the leading range alone.
C10_TrailingTextKept ==
  (RangeCase /\ input.trail # <<>> /\ BothNumbers(input.s, input.e))
    => ~(result.kind = "ok" /\ result = LeadingAlone)

\* -------------------------------------------------- claims on the commands
NoScope == [has_deleted |-> FALSE, deleted |-> <<>>]

\* the predicate holds of the index, the index being its only variable
Satisfies(pred, i) == eval(pred, i, NoScope).kind = "ok" /\ eval(pred, i, NoScope).val

\* the elements of the expansion of base whose index satisfies pred; all of
\* them without a predicate
Selection(base, pred) ==
  LET names == interpret_template_string(base).val
  IN kept(names, Len(names),
          {i \in 1..Len(names) : pred = None \/ Satisfies(strip(pred), i)})

\* the split of C4: base before the first ", if ", predicate after it; read
\* on the whole template, or inside the brackets of a template [base, if pred]
SplitWhole(tmpl) ==
  LET parts == split(tmpl, IfSep, 1)
  IN [base |-> parts[1], pred |-> IF Len(parts) > 1 THEN parts[2] ELSE None]

SplitInside(tmpl) ==
  LET parts == split(SubSeq(tmpl, 2, Len(tmpl) - 1), IfSep, 1)
  IN IF bracketed(tmpl) /\ Len(parts) > 1
     THEN [base |-> <<"[">> \o parts[1] \o <<"]">>, pred |-> parts[2]]
     ELSE SplitWhole(tmpl)

Readings(tmpl) == {SplitWhole(tmpl), SplitInside(tmpl)}

FilterDone ==
  /\ pc = "done"
  /\ cmd.op \in {"remove_channels", "preview_template"}
  /\ cmd.tmpl # None
  /\ cmd.failure = "none"

\* C4: in remove_channels and in preview_template the template is split at
\* the first ", if " into the base template that is expanded and the
\* predicate; the names selected are exactly the elements of the expansion
\* whose 1-based index satisfies the predicate, in order, and all of them when
\* the template has no ", if ".  Stated for the predicates that read the
\* index alone and evaluate at every index.
C4_SplitAndSelect ==
  LET expands == {r \in Readings(cmd.tmpl) :
                    /\ interpret_template_string(r.base).kind = "ok"
                    /\ r.pred = None \/ strip(r.pred) \in {ExprEven, ExprAboveOne}}
  IN (FilterDone /\ expands # {})
       => \E r \in expands : cmd.selected = Selection(r.base, r.pred)

\* C5: a predicate that fails at some index excludes that index alone, the
\* other indices are still evaluated, and the failure is never the failure of
\* the whole operation, in remove_channels and in preview_template alike.
C5_FilterFailureContained ==
  (/\ pc = "done"
   /\ cmd.op \in {"remove_channels", "preview_template"}
   /\ cmd.condition # None
   /\ cmd.failure # "format")
    => /\ sent.kind # "error"
       /\ \A i \in 1..Len(cmd.names) :
            /\ \E d \in decisions : d.expr = cmd.condition /\ d.i = i
            /\ eval(cmd.condition, i, NoScope).kind = "error"
                 => [expr |-> cmd.condition, i |-> i, keep |-> FALSE] \in decisions

\* the part of C5 that holds: remove_channels contains the failure
C5_RemoveContains ==
  (/\ pc = "done"
   /\ cmd.op = "remove_channels"
   /\ cmd.condition # None)
    => /\ sent.kind = "deleted"
       /\ \A i \in 1..Len(cmd.names) :
            \E d \in decisions : d.expr = cmd.condition /\ d.i = i

\* C8: in every batch operation (create_channels over the names,
\* remove_channels by template, remove_channels by category, clone_category
\* over the targets and over the source's channels) a failed remote call is
\* caught, the loop goes on, and the operation ends with a report whose count
\* is the number of calls that succeeded.
C8_BatchSurvivesFailure ==
  /\ pc = "raised" => cmd.failure # "remote"
  /\ (pc = "done" /\ sent.kind \in {"created", "deleted", "deleted_from", "cloned"})
       => sent.count = succ

\* the part of C8 that holds: a report that is sent counts the successes
C8_ReportCounts ==
  (pc = "done" /\ sent.kind \in {"created", "deleted", "deleted_from", "cloned"})
    => sent.count = succ

\* C9: the decision of the filter depends on the predicate text and the
\* index only: the same predicate at the same index is decided the same way
\* whatever the names, the channels deleted so far or the guild.
C9_DecisionByIndexOnly ==
  \A d1 \in decisions, d2 \in decisions :
    (d1.expr = d2.expr /\ d1.i = d2.i) => d1.keep = d2.keep

\* C4 in remove_channels alone
C4_InRemove == cmd.op = "remove_channels" => C4_SplitAndSelect

\* C4 in preview_template alone
C4_InPreview == cmd.op = "preview_template" => C4_SplitAndSelect

====
